---- MODULE Spec2Model ----
(***************************************************************************)
(* A model of malariagen_data/anoph/dipclust.py: the cached diplotype      *)
(* pairwise distance computation, the segregating-site filter, the sort    *)
(* flag policy, the dendrogram leaf order and the alignment of the         *)
(* heterozygosity, copy-number and amino-acid tracks onto it.              *)
(*                                                                         *)
(* Conventions: Python's None is the string "None"; a float is held in     *)
(* thousandths (0.2 is 200); a mean distance is the unreduced fraction     *)
(* [num, den], and 0/0 stands for NaN.                                     *)
(***************************************************************************)
EXTENDS Integers, Sequences, FiniteSets, TLC

VARIABLES
    \* ---- diplotype_pairwise_distances and the results cache
    cache,        \* results cache: [name, params] -> results dict
    pc,           \* position in diplotype_pairwise_distances
    req,          \* arguments of the call in progress
    params,       \* the normalised params dict (line 218)
    metric,       \* local `metric` of _diplotype_pairwise_distances
    gt,           \* loaded genotype call matrix [site][sample][ploidy]
    gt_ids,       \* sample ids of the loaded dataset
    gt_seg,       \* genotypes at the segregating sites
    results,      \* local `results`
    ret,          \* what the last finished call gave its caller
    ncalls,       \* calls started so far
    ncompute,     \* instrumented counter: cache key -> runs of the computation
    did_load,     \* the call in progress loaded genotype data
    did_count,    \* the call in progress counted alleles
    first_ret,    \* cache key -> the first triple returned for it
    \* ---- the computation applied to an arbitrary genotype call matrix
    seg_pc, seg_in, seg_metric, seg_used, seg_out,
    \* ---- plot_diplotype_clustering_advanced and plot_diplotype_clustering
    ppc,              \* position in plot_diplotype_clustering_advanced
    args,             \* heterozygosity, cnv_region, transcript, amino_acids, cohort_size as given
    cohort_size,      \* local cohort_size after lines 558-562
    sort_given,       \* count_sort, distance_sort as given to plot_diplotype_clustering
    tree_args,        \* count_sort, distance_sort as plot_dendrogram receives them
    recursionlimit,   \* sys.getrecursionlimit(), process-wide
    limit_at_entry,   \* sys.getrecursionlimit() when plot_diplotype_clustering was entered
    clust_call,       \* cohort_size, random_seed given to plot_diplotype_clustering
    het_call,         \* cohort_size, random_seed given to _plot_dendro_heterozygosity_bar
    samples,          \* res["samples"]: gt_samples of the clustering
    fig_data,         \* fig["data"] of the dendrogram: its traces
    order_data,       \* res["order_data"]
    x_range,          \* local x_range
    dendro_sample_id_order,
    figures,          \* the panel list
    row_heights,      \* the height-weight list, in thousandths
    src,              \* the source each track step read: het, cnv, aa
    sort_local,       \* count_sort, distance_sort after lines 89-92
    composite,        \* what concat_subplots was given
    perr,             \* the exception that left the call, or None
    \* ---- two callers of diplotype_pairwise_distances sharing the results cache
    t_pc,             \* caller -> its position in diplotype_pairwise_distances
    t_params,         \* caller -> its local `params`
    t_results,        \* caller -> its local `results`
    t_ret,            \* caller -> what its call gave it
    t_computed        \* caller -> its call missed the cache and ran the computation

cacheVars == <<cache, pc, req, params, metric, gt, gt_ids, gt_seg, results, ret,
               ncalls, ncompute, did_load, did_count, first_ret>>
segVars == <<seg_pc, seg_in, seg_metric, seg_used, seg_out>>
plotVars == <<ppc, args, cohort_size, sort_given, tree_args, recursionlimit,
              limit_at_entry, clust_call, het_call, samples,
              fig_data, order_data, x_range, dendro_sample_id_order, figures,
              row_heights, src, sort_local, composite, perr>>
concVars == <<t_pc, t_params, t_results, t_ret, t_computed>>
vars == <<cacheVars, segVars, plotVars, concVars>>

None == "None"

(***************************************************************************)
(* Bounds of the model.                                                    *)
(***************************************************************************)
MaxCalls == 3
MaxSites == 2
MaxGenes == 2

(***************************************************************************)
(* Sequence helpers.                                                       *)
(***************************************************************************)
Range(s) == {s[i] : i \in DOMAIN s}

RECURSIVE SeqSum(_)
SeqSum(s) == IF s = <<>> THEN 0 ELSE Head(s) + SeqSum(Tail(s))

Abs(n) == IF n < 0 THEN -n ELSE n

(***************************************************************************)
(* Allele counting and the segregating-site filter, lines 278-282.         *)
(***************************************************************************)
\* max_allele=3 of count_alleles and to_allele_counts
MaxAllele == 3

Alleles == 0..MaxAllele

\* allel.GenotypeArray(gt).count_alleles(max_allele=3), one site: the number
\* of calls of each allele over all samples; a missing call (-1) counts nowhere.
CountAlleles(site) ==
    [a \in Alleles |->
        Cardinality({ij \in UNION {{<<i, j>> : j \in DOMAIN site[i]} : i \in DOMAIN site} :
                        site[ij[1]][ij[2]] = a})]

\* AlleleCountsArray.is_segregating(), one site: more than one allele observed.
IsSegregatingMonomorphicKept(ac) == Cardinality({a \in DOMAIN ac : ac[a] > 0}) > 0

IsSegregating(ac) == Cardinality({a \in DOMAIN ac : ac[a] > 0}) > 1

SiteSegregates(site) == IsSegregating(CountAlleles(site))

\* gt.compress(ac.is_segregating(), axis=0)
Compress(g) == SelectSeq(g, SiteSegregates)

\* GenotypeArray.to_allele_counts(max_allele=3), one diplotype: its dosage vector.
ToAlleleCounts(d) ==
    [a \in Alleles |-> Cardinality({j \in DOMAIN d : d[j] = a})]

\* X = swapaxes(ac_seg, 0, 1): X[sample][site] is a dosage vector.
DosageMatrix(g, n) == [i \in 1..n |-> [k \in 1..Len(g) |-> ToAlleleCounts(g[k][i])]]

(***************************************************************************)
(* The two metrics and the pairwise distance (malariagen_data/util.py).    *)
(* A pair's distance is the per-site dosage difference summed over the     *)
(* allele classes and averaged over the sites: [num, den], 0/0 being NaN.  *)
(***************************************************************************)
SiteCityblock(x, y) == SeqSum([k \in 1..(MaxAllele + 1) |-> Abs(x[k - 1] - y[k - 1])])

SiteSqeuclidean(x, y) ==
    SeqSum([k \in 1..(MaxAllele + 1) |-> (x[k - 1] - y[k - 1]) * (x[k - 1] - y[k - 1])])

\* multiallelic_diplotype_mean_cityblock / multiallelic_diplotype_mean_sqeuclidean
MeanDistance(m, xi, xj) ==
    [num |-> SeqSum([k \in 1..Len(xi) |->
                        IF m = "mean_cityblock" THEN SiteCityblock(xi[k], xj[k])
                        ELSE SiteSqeuclidean(xi[k], xj[k])]),
     den |-> Len(xi)]

\* multiallelic_diplotype_pdist(X, metric): one distance per pair of samples.
Pdist(X, m) ==
    [p \in {ij \in (DOMAIN X) \X (DOMAIN X) : ij[1] < ij[2]} |->
        MeanDistance(m, X[p[1]], X[p[2]])]

(***************************************************************************)
(* The metric lookup, lines 256-259: no else branch, so any other name     *)
(* leaves the local `metric` unbound.                                      *)
(***************************************************************************)
Unbound == "unbound"

SelectMetric(distance_metric) ==
    IF distance_metric = "cityblock" THEN "mean_cityblock"
    ELSE IF distance_metric = "euclidean" THEN "mean_sqeuclidean"
    ELSE Unbound

(***************************************************************************)
(* Lines 278-296 on a loaded matrix g with sample ids: the results dict,   *)
(* or the UnboundLocalError raised where line 286 reads `metric`.          *)
(***************************************************************************)
NoResults == [kind |-> "none"]

DistResults(g, ids, m) ==
    IF m = Unbound THEN [kind |-> "UnboundLocalError"]
    ELSE [kind |-> "results",
          dist |-> Pdist(DosageMatrix(Compress(g), Len(ids)), m),
          gt_samples |-> ids,
          n_snps |-> Len(Compress(g))]

(***************************************************************************)
(* The dendrogram and its leaf order.                                      *)
(***************************************************************************)
NoSort == [count_sort |-> None, distance_sort |-> None]
NoArgs ==
    [heterozygosity |-> FALSE, cnv_region |-> None, transcript |-> None,
     amino_acids |-> FALSE, cohort_size |-> None, random_seed |-> None, color |-> None]
NoCall == [cohort_size |-> None, random_seed |-> None]
NoSrc == [kind |-> None, ids |-> <<>>, genes |-> <<>>]
NoSources == [het |-> NoSrc, cnv |-> NoSrc, aa |-> NoSrc]

\* lines 89-92: only when both flags are unset are they given values.
NormaliseSort(count_sort, distance_sort) ==
    IF count_sort = None /\ distance_sort = None
    THEN [count_sort |-> "True", distance_sort |-> "False"]
    ELSE [count_sort |-> count_sort, distance_sort |-> distance_sort]

\* sys.setrecursionlimit(10_000), line 96
RaisedRecursionLimit == 10000

\* The colour category of a sample when the leaves are coloured by taxon.
Taxon(s) == IF s = "s2" THEN "coluzzii" ELSE "gambiae"

LeafOrders(n) == {f \in [1..n -> 1..n] : \A i, j \in 1..n : f[i] = f[j] => i = j}

RECURSIVE Flatten(_)
Flatten(ss) == IF ss = <<>> THEN <<>> ELSE Head(ss) \o Flatten(Tail(ss))

\* The categories of the leaves in the order they first appear from the left.
RECURSIVE Categories(_)
Categories(cs) ==
    IF cs = <<>> THEN <<>>
    ELSE LET rest == Categories(SubSeq(cs, 1, Len(cs) - 1))
         IN  IF cs[Len(cs)] \in Range(rest) THEN rest ELSE Append(rest, cs[Len(cs)])

\* plot_dendrogram (malariagen_data/plotly_dendrogram.py): leaf k from the left
\* is at x = k - 1 and carries its sample id as hover text.  The first trace
\* is the tree skeleton; then one trace of leaf markers per colour category.
DendrogramTraces(leaves, color) ==
    LET n == Len(leaves)
        cat(k) == IF color = None THEN "all" ELSE Taxon(leaves[k])
        cats == Categories([k \in 1..n |-> cat(k)])
        members(c) == SelectSeq([k \in 1..n |-> k], LAMBDA k : cat(k) = c)
        skeleton == [x |-> [k \in 1..(n - 1) |-> k - 1], hovertext |-> <<>>]
    IN  <<skeleton>> \o
        [t \in 1..Len(cats) |->
            [x |-> [m \in 1..Len(members(cats[t])) |-> members(cats[t])[m] - 1],
             hovertext |-> [m \in 1..Len(members(cats[t])) |-> leaves[members(cats[t])[m]]]]]

\* pd.DataFrame({"xs": ..., "sample_id": ...}) of two concatenations
OrderFrame(xs, ids) ==
    [k \in 1..Len(xs) |-> [xs |-> xs[k], sample_id |-> IF k <= Len(ids) THEN ids[k] ELSE None]]

\* extract_dendro_sample_order, lines 298-308, were its loop to start at the
\* first trace.
ExtractFromFirstTrace(data) ==
    OrderFrame(Flatten([i \in 1..Len(data) |-> data[i].x]),
               Flatten([i \in 1..Len(data) |-> data[i].hovertext]))

\* extract_dendro_sample_order, lines 298-308: x and hover text of every trace
\* but the first, concatenated in trace order.
ExtractDendroSampleOrder(data) ==
    OrderFrame(Flatten([i \in 1..(Len(data) - 1) |-> data[i + 1].x]),
               Flatten([i \in 1..(Len(data) - 1) |-> data[i + 1].hovertext]))

\* Position of the first least element of a non-empty sequence of integers.
MinIndex(s) == CHOOSE i \in DOMAIN s : \A j \in DOMAIN s : s[i] < s[j] \/ (s[i] = s[j] /\ i <= j)

RemoveAt(s, i) == SubSeq(s, 1, i - 1) \o SubSeq(s, i + 1, Len(s))

\* order rows by their xs, ascending
RECURSIVE SortByKey(_, _)
SortByKey(rows, keys) ==
    IF rows = <<>> THEN <<>>
    ELSE LET i == MinIndex(keys)
         IN  <<rows[i]>> \o SortByKey(RemoveAt(rows, i), RemoveAt(keys, i))

\* np.sort(res["order_data"]["xs"].to_list()), line 596
SortedXs(od) == SortByKey([k \in 1..Len(od) |-> od[k].xs], [k \in 1..Len(od) |-> od[k].xs])

\* res["order_data"].sort_values("xs")["sample_id"].to_list(), lines 598-600
SortedSampleIds(od) ==
    SortByKey([k \in 1..Len(od) |-> od[k].sample_id], [k \in 1..Len(od) |-> od[k].xs])

(***************************************************************************)
(* Alignment of a per-sample source onto the leaf order.                   *)
(***************************************************************************)
\* A frame indexed by sample id: ids[k] is the index of row k, val[k] its value.
Frame(ids, val) == [ids |-> ids, val |-> val]

RowOf(df, label) == CHOOSE k \in DOMAIN df.ids : df.ids[k] = label

\* df.loc[labels, :]: the rows of the labels, in their order; a label that is
\* not in the index raises KeyError.
Loc(df, labels) ==
    IF \E k \in DOMAIN labels : labels[k] \notin Range(df.ids)
    THEN [kind |-> "KeyError"]
    ELSE [kind |-> "frame",
          rows |-> [k \in 1..Len(labels) |->
                       [sample_id |-> labels[k], value |-> df.val[RowOf(df, labels[k])]]]]

\* .T and `columns = x_range`: position k is labelled x_range[k].
SetColumns(rows, xr) ==
    [k \in 1..Len(rows) |->
        [x |-> xr[k], sample_id |-> rows[k].sample_id, value |-> rows[k].value]]

\* pd.concat([cnv_df, missing_cnv_df])
ConcatFrames(a, b) == Frame(a.ids \o b.ids, a.val \o b.val)

\* The value the copy-number track holds for a sample without CNV data, line 443.
MissingCn == "NaN"

\* lines 440-444: the samples of the clustering that the CNV data lacks.
MissingCnvFrame(cnv_ids, gt_samples) ==
    LET missing == SelectSeq(gt_samples, LAMBDA s : s \notin Range(cnv_ids))
    IN  Frame(missing, [k \in 1..Len(missing) |-> MissingCn])

\* lines 440-452: one gene's copy-number track.
AlignCnv(cnv_df, gt_samples, order, xr) ==
    LET got == Loc(ConcatFrames(cnv_df, MissingCnvFrame(cnv_df.ids, gt_samples)), order)
    IN  IF got.kind = "KeyError" THEN got
        ELSE [kind |-> "track", track |-> SetColumns(got.rows, xr)]

\* lines 357-363 and 646-649 were the rows taken in the order of the source.
AlignInSourceOrder(df, order, xr) ==
    LET got == Loc(df, SelectSeq(df.ids, LAMBDA s : s \in Range(order)))
    IN  IF Len(got.rows) # Len(xr) THEN [kind |-> "ValueError"]
        ELSE [kind |-> "track", track |-> SetColumns(got.rows, xr)]

\* lines 357-363 (heterozygosity) and 646-649 (one amino-acid variant): the
\* source selected by the leaf order, then labelled by x_range.
AlignByLoc(df, order, xr) ==
    LET got == Loc(df, order)
    IN  IF got.kind = "KeyError" THEN got
        ELSE [kind |-> "track", track |-> SetColumns(got.rows, xr)]

(***************************************************************************)
(* The backing data store behind snp_calls: three samples in two sample    *)
(* sets, three regions.  A site holds one diplotype per sample of the      *)
(* store, whether it passes the gamb_colu site mask and whether it is a    *)
(* CDS site.                                                               *)
(***************************************************************************)
StoreSamples == <<"s1", "s2", "s3">>

SampleSetOf(s) == IF s = "s3" THEN "B" ELSE "A"

QueryPasses(q, s) == q = None \/ s # "s2"

StoreSites(contig) ==
    IF contig = "2L" THEN
        << [calls |-> << <<0, 0>>, <<0, 1>>, <<1, 1>> >>, gamb_colu |-> TRUE, cds |-> TRUE],
           [calls |-> << <<0, 1>>, <<0, 1>>, <<0, 1>> >>, gamb_colu |-> FALSE, cds |-> TRUE],
           [calls |-> << <<0, 0>>, <<0, 0>>, <<-1, -1>> >>, gamb_colu |-> TRUE, cds |-> TRUE],
           [calls |-> << <<0, 0>>, <<1, 1>>, <<0, 2>> >>, gamb_colu |-> TRUE, cds |-> FALSE] >>
    ELSE IF contig = "3R" THEN
        << [calls |-> << <<0, 0>>, <<1, 1>>, <<0, 0>> >>, gamb_colu |-> TRUE, cds |-> TRUE] >>
    ELSE
        << [calls |-> << <<0, 0>>, <<0, 0>>, <<0, 0>> >>, gamb_colu |-> TRUE, cds |-> TRUE],
           [calls |-> << <<1, 1>>, <<1, 1>>, <<-1, -1>> >>, gamb_colu |-> TRUE, cds |-> TRUE] >>

\* The samples a query selects, then the cohort_size downsample drawn with random_seed.
Downsample(idx, size, random_seed) ==
    IF size = None \/ Len(idx) <= 2 THEN idx
    ELSE IF random_seed = "42" THEN SubSeq(idx, 1, 2)
    ELSE SubSeq(idx, Len(idx) - 1, Len(idx))

SelectedSamples(p) ==
    LET picked(i) == /\ SampleSetOf(StoreSamples[i]) \in p.sample_sets
                     /\ QueryPasses(p.sample_query, StoreSamples[i])
    IN  Downsample(SelectSeq(<<1, 2, 3>>, picked), p.cohort_size, p.random_seed)

SitePasses(p, site) ==
    /\ p.site_mask = "gamb_colu" => site.gamb_colu
    /\ p.site_class = "CDS" => site.cds

\* self.snp_calls(...) then ds_snps["call_genotype"].data.compute() and
\* ds_snps["sample_id"]: the matrix and the sample ids the params select.
SnpCalls(p) ==
    LET idx == SelectedSamples(p)
        keep(site) == SitePasses(p, site)
        sites == SelectSeq(StoreSites(p.region.contig), keep)
    IN  [gt |-> [k \in 1..Len(sites) |-> [i \in 1..Len(idx) |-> sites[k].calls[idx[i]]]],
         ids |-> [i \in 1..Len(idx) |-> StoreSamples[idx[i]]]]

(***************************************************************************)
(* diplotype_pairwise_distances, lines 200-242.                            *)
(***************************************************************************)
\* self._prep_sample_sets_param: a canonical, order-independent collection.
PrepSampleSets(sample_sets) == Range(sample_sets)

\* self._prep_region_cache_param: the region as a canonical record.
PrepRegion(region) == [contig |-> region]

\* name, line 213
CacheName == "diplotype_pairwise_distances_v1"

\* params = dict(...), lines 216-227, with every argument in it
NormParams(r) ==
    [region |-> PrepRegion(r.region), site_mask |-> r.site_mask,
     sample_sets |-> PrepSampleSets(r.sample_sets), sample_query |-> r.sample_query,
     site_class |-> r.site_class, cohort_size |-> r.cohort_size,
     distance_metric |-> r.distance_metric, random_seed |-> r.random_seed]

\* The key results_cache_get and results_cache_set are given: name and params.
CacheKeyWithoutSeed(p) == [name |-> CacheName, params |-> [p EXCEPT !.random_seed = "42"]]

CacheKeyWithoutCohortSize(p) == [name |-> CacheName, params |-> [p EXCEPT !.cohort_size = None]]

CacheKey(p) == [name |-> CacheName, params |-> p]

\* The requests the model draws its calls from: a base request, one request
\* differing from it in each parameter, the same sample sets in another order,
\* an unknown metric, a region without segregating sites, and two seeds of a
\* downsampled cohort.
BaseReq ==
    [region |-> "2L", site_mask |-> "DEFAULT", sample_sets |-> <<"A", "B">>,
     sample_query |-> None, site_class |-> None, cohort_size |-> None,
     distance_metric |-> "cityblock", random_seed |-> "42"]

Requests ==
    { BaseReq,
      [BaseReq EXCEPT !.region = "3R"],
      [BaseReq EXCEPT !.region = "X"],
      [BaseReq EXCEPT !.site_mask = "gamb_colu"],
      [BaseReq EXCEPT !.sample_sets = <<"B", "A">>],
      [BaseReq EXCEPT !.sample_sets = <<"A">>],
      [BaseReq EXCEPT !.sample_query = "taxon == 'gambiae'"],
      [BaseReq EXCEPT !.site_class = "CDS"],
      [BaseReq EXCEPT !.cohort_size = "2"],
      [BaseReq EXCEPT !.cohort_size = "2", !.random_seed = "7"],
      [BaseReq EXCEPT !.random_seed = "7"],
      [BaseReq EXCEPT !.distance_metric = "euclidean"],
      [BaseReq EXCEPT !.distance_metric = "hamming"] }

NoReq == [region |-> None]
NoParams == [region |-> None]
NoRet == [kind |-> "none"]
NoGt == <<>>

Count(f, k) == IF k \in DOMAIN f THEN f[k] ELSE 0

ClearLocals ==
    /\ params' = NoParams
    /\ metric' = None
    /\ gt' = NoGt
    /\ gt_ids' = <<>>
    /\ gt_seg' = NoGt
    /\ results' = NoResults

\* The results cache of the base class: get gives the entry stored under the
\* key or signals CacheMiss, set stores the entry under the key; nothing is
\* ever evicted.
ResultsCacheMisses(c, key) == key \notin DOMAIN c

ResultsCacheGet(c, key) == c[key]

ResultsCacheSet(c, key, entry) ==
    [k \in DOMAIN c \cup {key} |-> IF k = key THEN entry ELSE c[k]]

\* The call and the normalisation of its parameters, lines 200-227.
Call(r) ==
    /\ pc = "idle"
    /\ ncalls < MaxCalls
    /\ req' = r
    /\ params' = NormParams(r)
    /\ ncalls' = ncalls + 1
    /\ did_load' = FALSE
    /\ did_count' = FALSE
    /\ ret' = NoRet
    /\ pc' = "get"
    /\ UNCHANGED <<cache, metric, gt, gt_ids, gt_seg, results, ncompute, first_ret>>

\* results_cache_get, lines 230-233: the entry, or CacheMiss and the
\* computation is entered (line 234).
CacheGet ==
    /\ pc = "get"
    /\ IF ~ResultsCacheMisses(cache, CacheKey(params))
       THEN /\ results' = ResultsCacheGet(cache, CacheKey(params))
            /\ pc' = "unpack"
            /\ UNCHANGED ncompute
       ELSE /\ pc' = "metric"
            /\ ncompute' = [k \in DOMAIN ncompute \cup {CacheKey(params)} |->
                               IF k = CacheKey(params) THEN Count(ncompute, k) + 1
                               ELSE ncompute[k]]
            /\ UNCHANGED results
    /\ UNCHANGED <<cache, req, params, metric, gt, gt_ids, gt_seg, ret, ncalls,
                   did_load, did_count, first_ret>>

\* lines 256-259
MetricLookup ==
    /\ pc = "metric"
    /\ metric' = SelectMetric(params.distance_metric)
    /\ pc' = "load"
    /\ UNCHANGED <<cache, req, params, gt, gt_ids, gt_seg, results, ret, ncalls,
                   ncompute, did_load, did_count, first_ret>>

\* lines 261-273
LoadGenotypes ==
    /\ pc = "load"
    /\ gt' = SnpCalls(params).gt
    /\ gt_ids' = SnpCalls(params).ids
    /\ did_load' = TRUE
    /\ pc' = "count"
    /\ UNCHANGED <<cache, req, params, metric, gt_seg, results, ret, ncalls,
                   ncompute, did_count, first_ret>>

\* lines 275-282
CountAllelesStep ==
    /\ pc = "count"
    /\ gt_seg' = Compress(gt)
    /\ did_count' = TRUE
    /\ pc' = "pdist"
    /\ UNCHANGED <<cache, req, params, metric, gt, gt_ids, results, ret, ncalls,
                   ncompute, did_load, first_ret>>

\* lines 284-296: reading the unbound `metric` raises, and the error leaves
\* diplotype_pairwise_distances; otherwise the results dict is returned.
ComputeDistances ==
    /\ pc = "pdist"
    /\ LET out == DistResults(gt, gt_ids, metric)
       IN  IF out.kind = "results"
           THEN /\ results' = out
                /\ pc' = "set"
                /\ UNCHANGED <<params, metric, gt, gt_ids, gt_seg, ret>>
           ELSE /\ ret' = out
                /\ pc' = "idle"
                /\ ClearLocals
    /\ UNCHANGED <<cache, req, ncalls, ncompute, did_load, did_count, first_ret>>

\* results_cache_set, line 235
CacheSet ==
    /\ pc = "set"
    /\ cache' = ResultsCacheSet(cache, CacheKey(params), results)
    /\ pc' = "unpack"
    /\ UNCHANGED <<req, params, metric, gt, gt_ids, gt_seg, results, ret, ncalls,
                   ncompute, did_load, did_count, first_ret>>

\* lines 237-242
Unpack ==
    /\ pc = "unpack"
    /\ ret' = [kind |-> "triple", dist |-> results.dist,
               gt_samples |-> results.gt_samples, n_snps |-> results.n_snps]
    /\ first_ret' = IF CacheKey(params) \in DOMAIN first_ret THEN first_ret
                     ELSE [k \in DOMAIN first_ret \cup {CacheKey(params)} |->
                              IF k = CacheKey(params) THEN ret' ELSE first_ret[k]]
    /\ pc' = "idle"
    /\ ClearLocals
    /\ UNCHANGED <<cache, req, ncalls, ncompute, did_load, did_count>>

CacheInit ==
    /\ cache = <<>>
    /\ pc = "idle"
    /\ req = NoReq
    /\ params = NoParams
    /\ metric = None
    /\ gt = NoGt
    /\ gt_ids = <<>>
    /\ gt_seg = NoGt
    /\ results = NoResults
    /\ ret = NoRet
    /\ ncalls = 0
    /\ ncompute = <<>>
    /\ did_load = FALSE
    /\ did_count = FALSE
    /\ first_ret = <<>>

(***************************************************************************)
(* _diplotype_pairwise_distances on any genotype call matrix: up to        *)
(* MaxSites sites, the three samples of the store, each diplotype          *)
(* homozygous reference, heterozygous or missing.                          *)
(***************************************************************************)
Diplotypes == {<<0, 0>>, <<0, 1>>, <<-1, -1>>}

SegMatrices ==
    UNION {[1..n -> [1..Len(StoreSamples) -> Diplotypes]] : n \in 0..MaxSites}

SegInit ==
    /\ seg_pc = "input"
    /\ seg_in \in SegMatrices
    /\ seg_metric = None
    /\ seg_used = NoGt
    /\ seg_out = NoResults

\* lines 256-296 with gt already loaded
SegCompute(distance_metric) ==
    /\ seg_pc = "input"
    /\ seg_metric' = SelectMetric(distance_metric)
    /\ seg_used' = Compress(seg_in)
    /\ seg_out' = DistResults(seg_in, StoreSamples, SelectMetric(distance_metric))
    /\ seg_pc' = "done"
    /\ UNCHANGED seg_in

(***************************************************************************)
(* plot_diplotype_clustering_advanced, lines 520-705, and the              *)
(* plot_diplotype_clustering it calls, lines 55-198.                       *)
(***************************************************************************)
\* row_heights = [0.2], line 603
DendroHeight == 200
\* row_heights.append(0.012), lines 459 and 619
TrackHeight == 12
\* the minimum height of the amino-acid panel, line 655
AaMinHeight == 200

AdvancedArgs ==
    [heterozygosity : BOOLEAN, cnv_region : {None, "2R:28,480,000-28,510,000"},
     transcript : {None, "AGAP004707-RD"}, amino_acids : BOOLEAN,
     cohort_size : {None, "2"}, random_seed : {"42", "7"}, color : {None, "taxon"}]

SortFlags == {None, "True", "False"}

SubSeqOf(seq, S) == SelectSeq(seq, LAMBDA e : e \in S)

\* sample_id of snp_calls for the region: every sample of the store, or the
\* cohort of two that random_seed draws.
ClusteringSamples(cs, random_seed) ==
    LET idx == Downsample(<<1, 2, 3>>, cs, random_seed)
    IN  [i \in 1..Len(idx) |-> StoreSamples[idx[i]]]

\* lines 558-562: cohort_size is set to None when it is given and amino_acids is true.
CohortOverride(a) ==
    IF a.cohort_size # None /\ a.amino_acids THEN None ELSE a.cohort_size

\* lines 564-592: cohort_size and random_seed as given to plot_diplotype_clustering.
ClusteringCallParams(local_cohort_size, a) ==
    [cohort_size |-> local_cohort_size, random_seed |-> a.random_seed]

\* lines 607-617: cohort_size and random_seed as given to _plot_dendro_heterozygosity_bar.
HetCallParams(local_cohort_size, a) ==
    [cohort_size |-> local_cohort_size, random_seed |-> a.random_seed]

\* Per-sample heterozygosity over the region.
HetOf(s) == "het " \o s

\* CN_mode of a gene for a sample with CNV data.
CnMode(gene, s) == IF s = "s1" THEN "2" ELSE IF gene = "g1" THEN "3" ELSE "5"

GeneIds == <<"g1", "g2", "g3">>

\* What gene_cnv gives: a ValueError, or a dataset of some genes (none when the
\* region holds none) over the samples that have CNV data.
CnvOutcomes ==
    {[kind |-> "ValueError", ids |-> <<>>, genes |-> <<>>]} \cup
    {[kind |-> "dataset", ids |-> SubSeqOf(StoreSamples, S), genes |-> SubSeq(GeneIds, 1, n)] :
        S \in SUBSET Range(StoreSamples) \ {{}}, n \in 0..MaxGenes}

\* The amino-acid variants of the transcript and their allele counts.
AaVariants == <<"V402L", "L995F">>

AaCount(v, s) == IF v = "L995F" THEN 0 ELSE IF s = "s2" THEN 0 ELSE 2

\* What aa_allele_counts gives: a count_<sample> column per sample it covers.
AaOutcomes ==
    {[kind |-> "aa", ids |-> SubSeqOf(StoreSamples, S)] :
        S \in SUBSET Range(StoreSamples) \ {{}}}

CountColumn(s) == "count_" \o s

ClearPlotLocals ==
    /\ args' = NoArgs
    /\ cohort_size' = None
    /\ sort_given' = NoSort
    /\ sort_local' = NoSort
    /\ tree_args' = NoSort
    /\ samples' = <<>>
    /\ fig_data' = <<>>
    /\ order_data' = <<>>
    /\ x_range' = <<>>
    /\ dendro_sample_id_order' = <<>>
    /\ figures' = <<>>
    /\ row_heights' = <<>>
    /\ src' = NoSources
    /\ composite' = None
    /\ clust_call' = NoCall
    /\ het_call' = NoCall

\* lines 520-562: the call, and cohort_size set to None for the amino-acid heatmap.
AdvancedCall(a) ==
    /\ ppc = "p_idle"
    /\ args' = a
    /\ cohort_size' = CohortOverride(a)
    /\ perr' = None
    /\ ppc' = "clustering"
    /\ UNCHANGED <<sort_given, sort_local, tree_args, recursionlimit, limit_at_entry, clust_call, het_call, samples, fig_data,
                   order_data, x_range, dendro_sample_id_order, figures, row_heights,
                   src, composite>>

\* plot_diplotype_clustering, lines 85-111: the sort flags, the recursion limit,
\* the pairwise distances and their samples.
ClusteringEntry(count_sort, distance_sort) ==
    /\ ppc = "clustering"
    /\ sort_given' = [count_sort |-> count_sort, distance_sort |-> distance_sort]
    /\ sort_local' = NormaliseSort(count_sort, distance_sort)
    /\ limit_at_entry' = recursionlimit
    /\ recursionlimit' = RaisedRecursionLimit
    /\ clust_call' = ClusteringCallParams(cohort_size, args)
    /\ samples' = ClusteringSamples(clust_call'.cohort_size, clust_call'.random_seed)
    /\ UNCHANGED het_call
    /\ ppc' = "dendro"
    /\ UNCHANGED <<args, cohort_size, tree_args, fig_data, order_data, x_range,
                   dendro_sample_id_order, figures, row_heights, src, composite, perr>>

\* lines 154-187: plot_dendrogram is given the flags and draws the leaves in
\* the order the clustering puts them.
PlotDendrogram ==
    /\ ppc = "dendro"
    /\ tree_args' = sort_local
    /\ \E perm \in LeafOrders(Len(samples)) :
           fig_data' = DendrogramTraces([k \in 1..Len(samples) |-> samples[perm[k]]], args.color)
    /\ ppc' = "extract"
    /\ UNCHANGED <<args, cohort_size, sort_given, sort_local, recursionlimit, limit_at_entry, clust_call, het_call, samples,
                   order_data, x_range, dendro_sample_id_order, figures, row_heights,
                   src, composite, perr>>

\* lines 191-198: show is False, the dict with order_data is returned.
ReturnOrder ==
    /\ ppc = "extract"
    /\ order_data' = ExtractDendroSampleOrder(fig_data)
    /\ sort_given' = NoSort
    /\ sort_local' = NoSort
    /\ tree_args' = NoSort
    /\ ppc' = "sort"
    /\ UNCHANGED <<args, cohort_size, recursionlimit, limit_at_entry, clust_call, het_call, samples, fig_data, x_range,
                   dendro_sample_id_order, figures, row_heights, src, composite, perr>>

\* lines 594-604
SortLeaves ==
    /\ ppc = "sort"
    /\ x_range' = SortedXs(order_data)
    /\ dendro_sample_id_order' = SortedSampleIds(order_data)
    /\ figures' = <<[kind |-> "dendro", index |-> <<>>, rows |-> <<>>]>>
    /\ row_heights' = <<DendroHeight>>
    /\ ppc' = "het"
    /\ UNCHANGED <<args, cohort_size, sort_given, sort_local, tree_args, recursionlimit, limit_at_entry, clust_call, het_call,
                   samples, fig_data, order_data, src, composite, perr>>

Raise(e) ==
    /\ perr' = e
    /\ ppc' = "p_raised"
    /\ UNCHANGED <<figures, row_heights>>

\* lines 606-619 and _plot_dendro_heterozygosity_bar, lines 342-369: snp_calls
\* with the cohort_size and random_seed the track is given.
HeterozygosityTrack ==
    /\ ppc = "het"
    /\ IF args.heterozygosity
       THEN /\ het_call' = HetCallParams(cohort_size, args)
            /\ src' = [src EXCEPT !.het =
                          [kind |-> "het",
                           ids |-> ClusteringSamples(het_call'.cohort_size, het_call'.random_seed),
                           genes |-> <<>>]]
            /\ LET ids == src'.het.ids
                   df == Frame(ids, [k \in 1..Len(ids) |-> HetOf(ids[k])])
                   out == AlignByLoc(df, dendro_sample_id_order, x_range)
               IN  IF out.kind = "track"
                   THEN /\ figures' = Append(figures, [kind |-> "het",
                                                       index |-> <<"Sample Heterozygosity">>,
                                                       rows |-> <<out.track>>])
                        /\ row_heights' = Append(row_heights, TrackHeight)
                        /\ ppc' = "cnv"
                        /\ UNCHANGED perr
                   ELSE Raise(out.kind)
       ELSE /\ ppc' = "cnv"
            /\ UNCHANGED <<src, figures, row_heights, perr, het_call>>
    /\ UNCHANGED <<args, cohort_size, sort_given, sort_local, tree_args, recursionlimit, limit_at_entry, clust_call,
                   samples, fig_data, order_data, x_range, dendro_sample_id_order,
                   composite>>

\* The frame of one gene, lines 420-425.
GeneFrame(ds, gene) == Frame(ds.ids, [k \in 1..Len(ds.ids) |-> CnMode(gene, ds.ids[k])])

\* The loop of lines 419-459: one panel per gene, or the first error.
CnvPanels(ds, gt_samples, order, xr) ==
    LET out(i) == AlignCnv(GeneFrame(ds, ds.genes[i]), gt_samples, order, xr)
    IN  IF \E i \in DOMAIN ds.genes : out(i).kind # "track"
        THEN [kind |-> "KeyError", panels |-> <<>>]
        ELSE [kind |-> "panels",
              panels |-> [i \in 1..Len(ds.genes) |->
                             [kind |-> "cnv", index |-> <<ds.genes[i]>>,
                              rows |-> <<out(i).track>>]]]

\* The weights the loop appends, lines 458-459: one per gene, after its panel.
CnvPanelHeightsOnce(ds) == <<TrackHeight>>

CnvPanelHeights(ds) == [i \in 1..Len(ds.genes) |-> TrackHeight]

\* lines 621-633 and _plot_dendro_cnv_bar, lines 400-461.  Only ValueError is
\* caught at line 415; CN_mode.values[0] of a dataset without genes (line 411)
\* raises IndexError.
CnvTracks ==
    /\ ppc = "cnv"
    /\ IF args.cnv_region # None
       THEN \E ds \in CnvOutcomes :
            /\ src' = [src EXCEPT !.cnv = ds]
            /\ IF ds.kind = "ValueError"
               THEN /\ ppc' = "aa"
                    /\ UNCHANGED <<figures, row_heights, perr>>
               ELSE IF Len(ds.genes) = 0
               THEN Raise("IndexError")
               ELSE LET out == CnvPanels(ds, samples, dendro_sample_id_order, x_range)
                    IN  IF out.kind = "panels"
                        THEN /\ figures' = figures \o out.panels
                             /\ row_heights' = row_heights \o CnvPanelHeights(ds)
                             /\ ppc' = "aa"
                             /\ UNCHANGED perr
                        ELSE Raise(out.kind)
       ELSE /\ ppc' = "aa"
            /\ UNCHANGED <<src, figures, row_heights, perr>>
    /\ UNCHANGED <<args, cohort_size, sort_given, sort_local, tree_args, recursionlimit, limit_at_entry, clust_call, het_call,
                   samples, fig_data, order_data, x_range, dendro_sample_id_order,
                   composite>>

\* lines 651-653: the variants whose frequency over the columns exceeds
\* filter_min_maf = 0.05.
PassesMaf(row) == SeqSum([k \in 1..Len(row) |-> row[k].value]) * 100 > 5 * (Len(row) * 2)

\* aa_height, line 655
AaHeight(nrows) == IF nrows * 10 > AaMinHeight THEN nrows * 10 ELSE AaMinHeight

\* lines 635-658
AminoAcidTrack ==
    /\ ppc = "aa"
    /\ IF args.transcript # None /\ args.amino_acids
       THEN \E ds \in AaOutcomes :
            /\ src' = [src EXCEPT !.aa = [kind |-> "aa", ids |-> ds.ids, genes |-> <<>>]]
            /\ LET cols == [k \in 1..Len(ds.ids) |-> CountColumn(ds.ids[k])]
                   want == [k \in 1..Len(dendro_sample_id_order) |->
                               CountColumn(dendro_sample_id_order[k])]
                   out(v) == AlignByLoc(Frame(cols, [k \in 1..Len(ds.ids) |-> AaCount(v, ds.ids[k])]),
                                        want, x_range)
               IN  IF \E i \in DOMAIN AaVariants : out(AaVariants[i]).kind # "track"
                   THEN Raise("KeyError")
                   ELSE LET passes(v) == PassesMaf(out(v).track)
                            kept == SelectSeq(AaVariants, passes)
                        IN  /\ figures' = Append(figures,
                                   [kind |-> "aa", index |-> kept,
                                    rows |-> [i \in 1..Len(kept) |-> out(kept[i]).track]])
                            /\ row_heights' = Append(row_heights, AaHeight(Len(kept)))
                            /\ ppc' = "concat"
                            /\ UNCHANGED perr
       ELSE /\ ppc' = "concat"
            /\ UNCHANGED <<src, figures, row_heights, perr>>
    /\ UNCHANGED <<args, cohort_size, sort_given, sort_local, tree_args, recursionlimit, limit_at_entry, clust_call, het_call,
                   samples, fig_data, order_data, x_range, dendro_sample_id_order,
                   composite>>

\* lines 660-670 and concat_subplots, lines 463-508: one row per panel.
ConcatSubplots ==
    /\ ppc = "concat"
    /\ composite' = [rows |-> Len(figures), row_heights |-> row_heights,
                     panels |-> [k \in 1..Len(figures) |-> figures[k].kind]]
    /\ ppc' = "p_done"
    /\ UNCHANGED <<args, cohort_size, sort_given, sort_local, tree_args, recursionlimit, limit_at_entry, clust_call, het_call,
                   samples, fig_data, order_data, x_range, dendro_sample_id_order,
                   figures, row_heights, src, perr>>

\* The call is over: the figure was returned or the exception has left it.
AdvancedReturn ==
    /\ ppc \in {"p_done", "p_raised"}
    /\ ppc' = "p_idle"
    /\ perr' = None
    /\ ClearPlotLocals
    /\ UNCHANGED <<recursionlimit, limit_at_entry>>

PlotIdle ==
    /\ ppc = "p_idle"
    /\ args = NoArgs
    /\ cohort_size = None
    /\ sort_given = NoSort
    /\ sort_local = NoSort
    /\ tree_args = NoSort
    /\ recursionlimit = 1000
    /\ limit_at_entry = 1000
    /\ clust_call = NoCall
    /\ het_call = NoCall
    /\ samples = <<>>
    /\ fig_data = <<>>
    /\ order_data = <<>>
    /\ x_range = <<>>
    /\ dendro_sample_id_order = <<>>
    /\ figures = <<>>
    /\ row_heights = <<>>
    /\ src = NoSources
    /\ composite = None
    /\ perr = None

(***************************************************************************)
(* Two callers of diplotype_pairwise_distances, lines 200-242, each with   *)
(* its own locals, sharing the results cache.  Between the get, the        *)
(* computation, the set and the return of one caller the other may take    *)
(* any of its steps.                                                       *)
(***************************************************************************)
Callers == {1, 2}

\* self._diplotype_pairwise_distances(**params), lines 244-296.
ComputeResults(p) ==
    LET ds == SnpCalls(p)
    IN  DistResults(ds.gt, ds.ids, SelectMetric(p.distance_metric))

\* lines 237-242
Triple(res) ==
    [kind |-> "triple", dist |-> res.dist, gt_samples |-> res.gt_samples,
     n_snps |-> res.n_snps]

cacheLocals == <<pc, req, params, metric, gt, gt_ids, gt_seg, results, ret, ncalls,
                 ncompute, did_load, did_count, first_ret>>

\* lines 200-227
ConcCall(c, r) ==
    /\ t_pc[c] = "idle"
    /\ t_params' = [t_params EXCEPT ![c] = NormParams(r)]
    /\ t_pc' = [t_pc EXCEPT ![c] = "get"]
    /\ UNCHANGED <<cache, t_results, t_ret, t_computed>>

\* lines 230-233: results_cache_get, or CacheMiss
ConcGet(c) ==
    /\ t_pc[c] = "get"
    /\ IF ~ResultsCacheMisses(cache, CacheKey(t_params[c]))
       THEN /\ t_results' = [t_results EXCEPT ![c] = ResultsCacheGet(cache, CacheKey(t_params[c]))]
            /\ t_pc' = [t_pc EXCEPT ![c] = "unpack"]
       ELSE /\ t_pc' = [t_pc EXCEPT ![c] = "compute"]
            /\ UNCHANGED t_results
    /\ UNCHANGED <<cache, t_params, t_ret, t_computed>>

\* line 234: the computation, or the error that leaves the call
ConcCompute(c) ==
    /\ t_pc[c] = "compute"
    /\ t_computed' = [t_computed EXCEPT ![c] = TRUE]
    /\ LET out == ComputeResults(t_params[c])
       IN  IF out.kind = "results"
           THEN /\ t_results' = [t_results EXCEPT ![c] = out]
                /\ t_pc' = [t_pc EXCEPT ![c] = "set"]
                /\ UNCHANGED t_ret
           ELSE /\ t_ret' = [t_ret EXCEPT ![c] = out]
                /\ t_pc' = [t_pc EXCEPT ![c] = "raised"]
                /\ UNCHANGED t_results
    /\ UNCHANGED <<cache, t_params>>

\* line 235: results_cache_set
ConcSet(c) ==
    /\ t_pc[c] = "set"
    /\ cache' = ResultsCacheSet(cache, CacheKey(t_params[c]), t_results[c])
    /\ t_pc' = [t_pc EXCEPT ![c] = "unpack"]
    /\ UNCHANGED <<t_params, t_results, t_ret, t_computed>>

\* lines 237-242
ConcUnpack(c) ==
    /\ t_pc[c] = "unpack"
    /\ t_ret' = [t_ret EXCEPT ![c] = Triple(t_results[c])]
    /\ t_pc' = [t_pc EXCEPT ![c] = "returned"]
    /\ UNCHANGED <<cache, t_params, t_results, t_computed>>

\* No caller has called yet.
ConcIdle ==
    /\ t_pc = [c \in Callers |-> "idle"]
    /\ t_params = [c \in Callers |-> NoParams]
    /\ t_results = [c \in Callers |-> NoResults]
    /\ t_ret = [c \in Callers |-> NoRet]
    /\ t_computed = [c \in Callers |-> FALSE]

(***************************************************************************)
(* Specifications: successive calls of diplotype_pairwise_distances        *)
(* (Spec), the computation on any genotype call matrix (SpecSeg), calls    *)
(* of plot_diplotype_clustering_advanced (SpecPlot).                       *)
(***************************************************************************)
SegIdle ==
    /\ seg_pc = "off"
    /\ seg_in = NoGt
    /\ seg_metric = None
    /\ seg_used = NoGt
    /\ seg_out = NoResults

Init == CacheInit /\ SegIdle /\ PlotIdle /\ ConcIdle

Next ==
    \/ \E r \in Requests : Call(r) /\ UNCHANGED <<segVars, plotVars, concVars>>
    \/ CacheGet /\ UNCHANGED <<segVars, plotVars, concVars>>
    \/ MetricLookup /\ UNCHANGED <<segVars, plotVars, concVars>>
    \/ LoadGenotypes /\ UNCHANGED <<segVars, plotVars, concVars>>
    \/ CountAllelesStep /\ UNCHANGED <<segVars, plotVars, concVars>>
    \/ ComputeDistances /\ UNCHANGED <<segVars, plotVars, concVars>>
    \/ CacheSet /\ UNCHANGED <<segVars, plotVars, concVars>>
    \/ Unpack /\ UNCHANGED <<segVars, plotVars, concVars>>

Spec == Init /\ [][Next]_vars


SegNext ==
    \E m \in {"cityblock", "euclidean"} : SegCompute(m) /\ UNCHANGED <<cacheVars, plotVars, concVars>>

InitSeg == CacheInit /\ SegInit /\ PlotIdle /\ ConcIdle

SpecSeg == InitSeg /\ [][SegNext]_vars


PlotNext ==
    \/ \E a \in AdvancedArgs : AdvancedCall(a) /\ UNCHANGED <<cacheVars, segVars, concVars>>
    \/ \E c, d \in SortFlags : ClusteringEntry(c, d) /\ UNCHANGED <<cacheVars, segVars, concVars>>
    \/ PlotDendrogram /\ UNCHANGED <<cacheVars, segVars, concVars>>
    \/ ReturnOrder /\ UNCHANGED <<cacheVars, segVars, concVars>>
    \/ SortLeaves /\ UNCHANGED <<cacheVars, segVars, concVars>>
    \/ HeterozygosityTrack /\ UNCHANGED <<cacheVars, segVars, concVars>>
    \/ CnvTracks /\ UNCHANGED <<cacheVars, segVars, concVars>>
    \/ AminoAcidTrack /\ UNCHANGED <<cacheVars, segVars, concVars>>
    \/ ConcatSubplots /\ UNCHANGED <<cacheVars, segVars, concVars>>
    \/ AdvancedReturn /\ UNCHANGED <<cacheVars, segVars, concVars>>

InitPlot == CacheInit /\ SegIdle /\ PlotIdle /\ ConcIdle

SpecPlot == InitPlot /\ [][PlotNext]_vars


ConcNext ==
    \/ \E c \in Callers, r \in Requests :
           ConcCall(c, r) /\ UNCHANGED <<cacheLocals, segVars, plotVars>>
    \/ \E c \in Callers : ConcGet(c) /\ UNCHANGED <<cacheLocals, segVars, plotVars>>
    \/ \E c \in Callers : ConcCompute(c) /\ UNCHANGED <<cacheLocals, segVars, plotVars>>
    \/ \E c \in Callers : ConcSet(c) /\ UNCHANGED <<cacheLocals, segVars, plotVars>>
    \/ \E c \in Callers : ConcUnpack(c) /\ UNCHANGED <<cacheLocals, segVars, plotVars>>

InitConc == CacheInit /\ SegIdle /\ PlotIdle /\ ConcIdle

SpecConc == InitConc /\ [][ConcNext]_vars

(***************************************************************************)
(* Claims about the cache and the distance computation.                    *)
(***************************************************************************)
KnownMetrics == {"cityblock", "euclidean"}

\* The params of a request written out argument by argument.
OwnParams(r) ==
    [region |-> PrepRegion(r.region), site_mask |-> r.site_mask,
     sample_sets |-> PrepSampleSets(r.sample_sets), sample_query |-> r.sample_query,
     site_class |-> r.site_class, cohort_size |-> r.cohort_size,
     distance_metric |-> r.distance_metric, random_seed |-> r.random_seed]

OwnKey(r) == [name |-> CacheName, params |-> OwnParams(r)]

\* C1: a call that returns a triple returns the triple first returned for its
\* cache key, and the computation has run at most once for every cache key.
C1_AtMostOneComputationPerKey ==
    /\ \A k \in DOMAIN ncompute : ncompute[k] <= 1
    /\ (ret.kind = "triple" /\ OwnKey(req) \in DOMAIN first_ret) => ret = first_ret[OwnKey(req)]

\* The same two statements for the cache keys whose metric is cityblock or
\* euclidean: these the code keeps.
C1_HoldsForKnownMetrics ==
    /\ \A k \in DOMAIN ncompute : k.params.distance_metric \in KnownMetrics => ncompute[k] <= 1
    /\ (ret.kind = "triple" /\ OwnKey(req) \in DOMAIN first_ret) => ret = first_ret[OwnKey(req)]

\* C2: the triple a call returns is the triple the computation yields for the
\* call's own parameters, whatever was computed and cached before.
C2_ReturnIsOwnComputation ==
    ret.kind = "triple" =>
        LET p == OwnParams(req)
            d == SnpCalls(p)
            own == DistResults(d.gt, d.ids, SelectMetric(p.distance_metric))
        IN  /\ own.kind = "results"
            /\ ret.dist = own.dist
            /\ ret.gt_samples = own.gt_samples
            /\ ret.n_snps = own.n_snps

\* C2 witness: a third call, for the second seed of a downsampled cohort, was
\* served from a cache that holds other entries.
C2_Witness ==
    /\ ret.kind = "triple"
    /\ ~did_load
    /\ req.cohort_size = "2"
    /\ req.random_seed = "7"
    /\ [OwnKey(req) EXCEPT !.params.random_seed = "42"] \in DOMAIN cache
    /\ Cardinality(DOMAIN cache) >= 2

\* C3: a call whose distance_metric is neither cityblock nor euclidean loads no
\* genotype data, counts no alleles and leaves nothing in the cache.
C3_UnknownMetricRejectedFirst ==
    (ncalls > 0 /\ req.distance_metric \notin KnownMetrics) =>
        /\ ~did_load
        /\ ~did_count
        /\ OwnKey(req) \notin DOMAIN cache

\* C4: no results dict and no returned triple has n_snps = 0: a matrix without
\* segregating sites ends in an error instead.
C4_NoMatrixWithoutSegregatingSites ==
    /\ results.kind = "results" => results.n_snps > 0
    /\ ret.kind = "triple" => ret.n_snps > 0
    /\ \A k \in DOMAIN cache : cache[k].n_snps > 0

(***************************************************************************)
(* Claims about the segregating-site filter.                               *)
(***************************************************************************)
\* Two called alleles of 0..3 at the site differ, in whichever samples.
TwoAllelesObserved(site) ==
    \E i, j \in DOMAIN site : \E a \in DOMAIN site[i], b \in DOMAIN site[j] :
        /\ site[i][a] \in Alleles
        /\ site[j][b] \in Alleles
        /\ site[i][a] # site[j][b]

\* Every sample has the same allele-count profile at the site.
SameProfile(site) ==
    \A i, j \in DOMAIN site : ToAlleleCounts(site[i]) = ToAlleleCounts(site[j])

ProfilesDiffer(site) == ~SameProfile(site)

SegFinished == seg_pc = "done" /\ seg_out.kind = "results"

\* C10, as amended: the sites used are, in order, exactly the sites at which
\* two different alleles are observed among the calls of all samples, n_snps
\* is their number and every distance is averaged over that many sites.
C10_KeptIffTwoAllelesObserved ==
    SegFinished =>
        /\ seg_used = SelectSeq(seg_in, TwoAllelesObserved)
        /\ seg_out.n_snps = Len(seg_used)
        /\ \A q \in DOMAIN seg_out.dist : seg_out.dist[q].den = Len(seg_used)

\* C10 witness: of two sites, one at which every sample is the same
\* heterozygote is kept and one at which the samples differ is discarded.
C10_Witness ==
    /\ SegFinished
    /\ Len(seg_in) = 2
    /\ SameProfile(seg_in[1]) /\ TwoAllelesObserved(seg_in[1])
    /\ ProfilesDiffer(seg_in[2]) /\ ~TwoAllelesObserved(seg_in[2])
    /\ seg_used = <<seg_in[1]>>
    /\ seg_out.n_snps = 1

\* C10 as stated: the sites used are exactly the sites at which not all
\* samples share the same allele-count profile, and n_snps is their number.
C10_KeptIffProfilesDiffer ==
    SegFinished =>
        /\ seg_used = SelectSeq(seg_in, ProfilesDiffer)
        /\ seg_out.n_snps = Len(seg_used)

(***************************************************************************)
(* Claims about the leaf order, the tracks and the sort flags.             *)
(***************************************************************************)
Extracted == ppc \in {"sort", "het", "cnv", "aa", "concat", "p_done", "p_raised"}

LeavesSorted == ppc \in {"het", "cnv", "aa", "concat", "p_done", "p_raised"}

\* The leaf markers of the figure: the (x, hover text) pairs of its traces
\* after the first.
LeafMarkers ==
    UNION {{[xs |-> fig_data[t].x[m], sample_id |-> fig_data[t].hovertext[m]] :
               m \in DOMAIN fig_data[t].x} : t \in 2..Len(fig_data)}

\* order_data has one entry per sample, each a leaf marker, none twice.
OneEntryPerSample ==
    /\ Len(order_data) = Len(samples)
    /\ {order_data[k].sample_id : k \in DOMAIN order_data} = Range(samples)
    /\ \A j, k \in DOMAIN order_data :
           order_data[j].sample_id = order_data[k].sample_id => j = k
    /\ Range(order_data) = LeafMarkers

\* C6, as amended: what extract_dendro_sample_order returns holds exactly one
\* entry per sample, built from every trace except the first, in trace order;
\* sorted by lines 596-600 it is strictly ascending in x, x_range[k] and
\* dendro_sample_id_order[k] being the k-th leaf from the left.
C6_OneEntryPerSampleSortedByCaller ==
    /\ Extracted => OneEntryPerSample
    /\ LeavesSorted =>
           /\ Len(x_range) = Len(samples)
           /\ Len(dendro_sample_id_order) = Len(samples)
           /\ \A k \in 1..(Len(x_range) - 1) : x_range[k] < x_range[k + 1]
           /\ \A k \in DOMAIN x_range :
                  [xs |-> x_range[k], sample_id |-> dendro_sample_id_order[k]] \in LeafMarkers

\* C6 witness: the leaves are in two traces, what was extracted is not in x
\* order, and the sorted leaf order is.
C6_Witness ==
    /\ ppc = "het"
    /\ Len(fig_data) = 3
    /\ \E k \in 1..(Len(order_data) - 1) : order_data[k].xs > order_data[k + 1].xs
    /\ x_range = <<0, 1, 2>>
    /\ dendro_sample_id_order # samples

\* C6 as stated: what extract_dendro_sample_order returns is strictly sorted
\* by x and holds exactly one entry per sample.
C6_ExtractedOrderIsSorted ==
    Extracted =>
        /\ OneEntryPerSample
        /\ \A k \in 1..(Len(order_data) - 1) : order_data[k].xs < order_data[k + 1].xs

\* The sample whose leaf is at x.
LeafSampleAt(x) == (CHOOSE e \in Range(order_data) : e.xs = x).sample_id

\* The value the source of a panel holds for a sample of the leaf order.
SourceValue(panel, r, s) ==
    IF panel.kind = "het" THEN HetOf(s)
    ELSE IF panel.kind = "cnv"
    THEN IF s \in Range(src.cnv.ids) THEN CnMode(panel.index[r], s) ELSE MissingCn
    ELSE AaCount(panel.index[r], s)

TrackPanels == {i \in DOMAIN figures : figures[i].kind # "dendro"}

\* C8: in every track, position k holds the value its source has for the k-th
\* sample from the left (the missing value where the copy-number source has
\* none) under the k-th smallest leaf x as its label, so only samples of the
\* leaf order appear.
C8_TrackPositionsFollowLeafOrder ==
    \A i \in TrackPanels : \A r \in DOMAIN figures[i].rows :
        LET row == figures[i].rows[r]
        IN  /\ Len(row) = Len(order_data)
            /\ \A k \in DOMAIN row :
                   /\ row[k].x \in {e.xs : e \in Range(order_data)}
                   /\ Cardinality({e \in Range(order_data) : e.xs < row[k].x}) = k - 1
                   /\ row[k].sample_id = IF figures[i].kind = "aa"
                                         THEN CountColumn(LeafSampleAt(row[k].x))
                                         ELSE LeafSampleAt(row[k].x)
                   /\ row[k].value = SourceValue(figures[i], r, LeafSampleAt(row[k].x))

\* C8 witness: a heterozygosity track and two copy-number tracks over a cohort
\* of two whose leaf order is not the order of the samples, the copy-number
\* source holding a sample that is not a leaf.
C8_Witness ==
    /\ ppc = "p_done"
    /\ Len(samples) = 2
    /\ dendro_sample_id_order # samples
    /\ Len(figures) = 4
    /\ figures[2].kind = "het"
    /\ figures[4].kind = "cnv"
    /\ \E s \in Range(src.cnv.ids) : s \notin Range(samples)

StrictSubset(A, B) == A \subseteq B /\ A # B

\* Whether a track step ran on a source that can give a track.
TrackSourceRead(K) ==
    /\ src[K].kind \in {"het", "dataset", "aa"}
    /\ src[K].kind = "dataset" => Len(src[K].genes) > 0

\* The step of source K is the last that ran, and an exception left it.
RaisedIn(K) ==
    /\ ppc = "p_raised"
    /\ K = "het" => src.cnv.kind = None /\ src.aa.kind = None
    /\ K = "cnv" => src.aa.kind = None

\* C5: whenever a track step has read a source that covers only a strict
\* subset of the leaf order, no exception left the step and it added a track
\* of N positions that holds the missing value at exactly the positions of
\* the samples the source lacks.
C5_TracksFillMissingSamples ==
    \A K \in {"het", "cnv", "aa"} :
        (/\ TrackSourceRead(K)
         /\ StrictSubset(Range(src[K].ids), Range(dendro_sample_id_order))) =>
            /\ ~RaisedIn(K)
            /\ \E i \in TrackPanels : figures[i].kind = K
            /\ \A i \in TrackPanels : figures[i].kind = K =>
                   \A r \in DOMAIN figures[i].rows :
                       /\ Len(figures[i].rows[r]) = Len(dendro_sample_id_order)
                       /\ \A k \in DOMAIN figures[i].rows[r] :
                              figures[i].rows[r][k].value = MissingCn
                                  <=> dendro_sample_id_order[k] \notin Range(src[K].ids)

\* The copy-number half of C5, which the code keeps.
C5_HoldsForCopyNumber ==
    (/\ TrackSourceRead("cnv")
     /\ StrictSubset(Range(src.cnv.ids) \cap Range(dendro_sample_id_order),
                     Range(dendro_sample_id_order))) =>
        /\ ~RaisedIn("cnv")
        /\ \E i \in TrackPanels : figures[i].kind = "cnv"
        /\ \A i \in TrackPanels : figures[i].kind = "cnv" =>
               \A r \in DOMAIN figures[i].rows :
                   /\ Len(figures[i].rows[r]) = Len(dendro_sample_id_order)
                   /\ \A k \in DOMAIN figures[i].rows[r] :
                          figures[i].rows[r][k].value = MissingCn
                              <=> dendro_sample_id_order[k] \notin Range(src.cnv.ids)

NoCnvData(ds) == ds.kind = "ValueError" \/ (ds.kind = "dataset" /\ Len(ds.genes) = 0)

\* C7: a copy-number step that finds no data (a ValueError, or a dataset
\* without genes) lets no exception leave the call, goes on to the next step
\* and leaves the panel list and the height-weight list as they were.
C7_NoCnvDataOmitsPanel ==
    [][(ppc = "cnv" /\ NoCnvData(src'.cnv)) =>
           /\ perr' = None
           /\ ppc' = "aa"
           /\ figures' = figures
           /\ row_heights' = row_heights]_vars

\* C9: with neither flag given the tree is built with count_sort true and
\* distance_sort false; a true distance_sort is passed on and count_sort is
\* then not true: plot_dendrogram never receives both flags true.
C9_SortFlagPolicy ==
    ppc = "extract" =>
        /\ sort_given = NoSort => tree_args = [count_sort |-> "True", distance_sort |-> "False"]
        /\ sort_given.distance_sort = "True" => tree_args.distance_sort = "True"
        /\ ~(tree_args.count_sort = "True" /\ tree_args.distance_sort = "True")

(***************************************************************************)
(* The recursion limit of the process around plot_diplotype_clustering.    *)
(***************************************************************************)
\* plot_diplotype_clustering has returned to plot_diplotype_clustering_advanced.
ClusteringReturned == ppc \in {"sort", "het", "cnv", "aa", "concat", "p_done", "p_raised"}

\* C12: after plot_diplotype_clustering has returned, the process-wide
\* recursion limit has the value it had when the call was entered.
C12_RecursionLimitRestored ==
    ClusteringReturned => recursionlimit = limit_at_entry

\* What holds instead: once plot_diplotype_clustering has run, the limit is the
\* raised one, during the call, after it and after the advanced plot is over.
C12_LimitStaysRaised ==
    /\ ppc \notin {"p_idle", "clustering"} => recursionlimit = RaisedRecursionLimit
    /\ recursionlimit \in {limit_at_entry, RaisedRecursionLimit}

(***************************************************************************)
(* The panel list and the height-weight list.                              *)
(***************************************************************************)
\* The two lists exist: lines 602-604 have run.
PanelListsBuilt == ppc \in {"het", "cnv", "aa", "concat", "p_done", "p_raised"}

\* C13: after every step of plot_diplotype_clustering_advanced the panel list
\* and the height-weight list have the same length, the first panel is the
\* dendrogram and the first weight is 0.2; concat_subplots is given the lists
\* in that state and makes one row per panel.
C13_PanelsMatchHeights ==
    /\ PanelListsBuilt =>
           /\ Len(figures) = Len(row_heights)
           /\ figures[1].kind = "dendro"
           /\ row_heights[1] = DendroHeight
           /\ \A i \in 2..Len(figures) : figures[i].kind # "dendro"
    /\ ppc = "p_done" =>
           /\ composite.rows = Len(figures)
           /\ composite.row_heights = row_heights
           /\ Len(composite.row_heights) = composite.rows
           /\ composite.panels[1] = "dendro"
           /\ composite.row_heights[1] = DendroHeight

\* concat_subplots was called with the dendrogram, the heterozygosity track,
\* one copy-number track per gene of several, and the amino-acid heatmap.
C13_Witness ==
    /\ ppc = "p_done"
    /\ args.heterozygosity
    /\ src.cnv.kind = "dataset"
    /\ Len(src.cnv.genes) > 1
    /\ src.aa.kind = "aa"
    /\ composite.rows = Len(src.cnv.genes) + 3

(***************************************************************************)
(* cohort_size in plot_diplotype_clustering_advanced.                      *)
(***************************************************************************)
\* The amino-acid heatmap is drawn, line 635.
HeatmapDrawn(a) == a.transcript # None /\ a.amino_acids

CallerParams(a) == [cohort_size |-> a.cohort_size, random_seed |-> a.random_seed]

Clustered == ppc \notin {"p_idle", "clustering"}

HetRead == src.het.kind = "het"

\* C14: the local cohort_size is None when the amino-acid heatmap is drawn
\* and the caller's cohort_size otherwise; when no heatmap is drawn the
\* clustering and the heterozygosity track are both given the caller's
\* cohort_size and random_seed and select the same samples.
C14_CohortReplacedExactlyForHeatmap ==
    ppc # "p_idle" =>
        /\ cohort_size = IF HeatmapDrawn(args) THEN None ELSE args.cohort_size
        /\ ~HeatmapDrawn(args) =>
               /\ Clustered => clust_call = CallerParams(args)
               /\ HetRead => /\ het_call = CallerParams(args)
                             /\ src.het.ids = samples

\* What holds instead: cohort_size is replaced by None whenever amino_acids is
\* true, whether or not a transcript is given; the clustering and the
\* heterozygosity track are always given the same cohort_size and random_seed
\* and select the same samples.
C14_CohortReplacedForAminoAcidsFlag ==
    ppc # "p_idle" =>
        /\ cohort_size = IF args.amino_acids THEN None ELSE args.cohort_size
        /\ Clustered => clust_call = [cohort_size |-> cohort_size,
                                      random_seed |-> args.random_seed]
        /\ HetRead => /\ het_call = clust_call
                      /\ src.het.ids = samples

(***************************************************************************)
(* Two callers and one cache.                                              *)
(***************************************************************************)
KeyOf(c) == CacheKey(t_params[c])

SameKey(c, d) == t_pc[c] # "idle" /\ t_pc[d] # "idle" /\ KeyOf(c) = KeyOf(d)

\* C11: of two callers with the same cache key, under every interleaving of
\* their get, compute and set steps, those that have returned have returned
\* the same triple, and the cache entry of the key is that triple, whichever
\* caller stored last.
C11_ConcurrentCallersAgree ==
    \A c, d \in Callers :
        SameKey(c, d) =>
            /\ (t_ret[c].kind = "triple" /\ t_ret[d].kind = "triple") => t_ret[c] = t_ret[d]
            /\ t_ret[c].kind = "triple" =>
                   /\ ~ResultsCacheMisses(cache, KeyOf(c))
                   /\ Triple(ResultsCacheGet(cache, KeyOf(c))) = t_ret[c]

\* Both callers had the same key, both missed, both computed and stored, and
\* both have returned.
C11_Witness ==
    /\ SameKey(1, 2)
    /\ \A c \in Callers : t_computed[c] /\ t_pc[c] = "returned" /\ t_ret[c].kind = "triple"
    /\ Len(t_ret[1].gt_samples) > 1
====
